---- MODULE Spec2Model ----
(***************************************************************************)
(* Campus event registration back end (src/app.py): the TTL cache, the     *)
(* token-bucket limiter, the captcha service and the registration          *)
(* submit / cancel handlers over the SQLite store.                         *)
(*                                                                         *)
(* Time.  time.time() is a float number of seconds.  The model keeps it on *)
(* a grid of TicksPerSecond ticks per second and keeps bucket tokens in    *)
(* units of 1/Resolution token, so that elapsed * refill_rate is exact.    *)
(* Floating-point rounding is not modelled.                                *)
(*                                                                         *)
(* Threads.  Flask's development server handles each request in its own    *)
(* thread.  MemoryCache and TokenBucketRateLimiter methods run under a     *)
(* threading.Lock and are single atomic steps; CaptchaService takes no     *)
(* lock, so verify is split at each access to the shared dict.             *)
(*                                                                         *)
(* Store.  init_test_data() fills an empty event table with twelve events  *)
(* (ids 1..12); every further event comes from create_event and takes the  *)
(* next id.  Handlers are followed on the thirteenth event, whose capacity *)
(* is small enough for the full-event cases to occur.  The user table and  *)
(* the session:<id> cache keys written by register and login are left out: *)
(* no handler modelled here reads them.                                    *)
(***************************************************************************)
EXTENDS Integers, FiniteSets, Sequences, TLC

\* ------------------------------------------------------------------ bounds
Resolution == 2          \* token units per token (fineness of the time grid)
MaxNow == 5              \* the clock advances tick by tick up to this tick
MaxJumps == 1            \* number of long clock advances (past a TTL)
MaxCalls == 3            \* number of requests started in one behaviour
MaxDirect == 12          \* direct component calls, or requests of one client, in one behaviour
MaxEvents == 14          \* rows the event table may come to hold

\* ------------------------------------------------------- program constants
capacity == 10           \* TokenBucketRateLimiter(capacity=10, ...)
refill_rate == 2         \* TokenBucketRateLimiter(..., refill_rate=2)
CaptchaWindow == 300     \* seconds a captcha stays valid
QuotaTTL == 3600         \* seconds the cached quota lives
ListTTL == 60            \* seconds the cached event list lives
DetailTTL == 300         \* seconds a cached event detail lives

TicksPerSecond == refill_rate * Resolution

\* --------------------------------------------------------------- variables
VARIABLES
    now,            \* time.time(), in ticks
    jumps,          \* long clock advances so far
    _cache,         \* MemoryCache._cache : key -> value
    _expiry,        \* MemoryCache._expiry : key -> tick
    _buckets,       \* TokenBucketRateLimiter._buckets : key -> bucket
    _codes,         \* CaptchaService._codes : session -> challenge
    event,          \* committed rows of table event : id -> row
    registration,   \* committed rows of table registration : <<event, user>> -> count
    db_lock,        \* the thread holding SQLite's write lock, or 0
    pc,             \* per thread: where its handler stands
    req,            \* per thread: the request it handles
    loc,            \* per thread: the handler's local variables
    outcome,        \* per thread: how its last request ended
    calls,          \* requests started so far
    last_call,      \* the last direct call of a component method and its result
    allow_log,      \* per identity: tick of the first allow, grants since
    challenge_log   \* per session, since its last generate: verifies done, granted

vars == <<now, jumps, _cache, _expiry, _buckets, _codes, event, registration,
          db_lock, pc, req, loc, outcome, calls, last_call, allow_log,
          challenge_log>>

Procs == {1, 2}                    \* two request threads
Users == {1, 2}                    \* user ids
Seconds(s) == s * TicksPerSecond

\* ------------------------------------------------------------ dict helpers
None == <<>>
Some(v) == <<v>>

Put(d, k, v) == [x \in (DOMAIN d) \cup {k} |-> IF x = k THEN v ELSE d[x]]
Pop(d, k) == [x \in (DOMAIN d) \ {k} |-> d[x]]
Get(d, k, default) == IF k \in DOMAIN d THEN d[k] ELSE default
EmptyDict == [x \in {} |-> 0]

Min(a, b) == IF a <= b THEN a ELSE b

\* ------------------------------------------------------------- MemoryCache
\* Each operator maps the cache's two dicts (c, e) and the call's arguments
\* to the dicts after the call and the value returned.

cache_get(c, e, key, t) ==
    IF key \in DOMAIN e /\ t > e[key]
    THEN [cache |-> Pop(c, key), expiry |-> Pop(e, key), ret |-> None]
    ELSE [cache |-> c, expiry |-> e,
          ret |-> IF key \in DOMAIN c THEN Some(c[key]) ELSE None]

cache_set(c, e, key, value, ttl, t) ==
    [cache |-> Put(c, key, value), expiry |-> Put(e, key, t + ttl), ret |-> None]

cache_delete(c, e, key) ==
    [cache |-> Pop(c, key), expiry |-> Pop(e, key), ret |-> None]

\* an incr that stores 1 whatever another call has stored in between
cache_incr_stale(c, e, key) ==
    [cache |-> Put(c, key, 1), expiry |-> e, ret |-> Some(1)]

cache_incr(c, e, key) ==
    [cache |-> Put(c, key, Get(c, key, 0) + 1), expiry |-> e,
     ret |-> Some(Get(c, key, 0) + 1)]

\* a decr that stops at 0: it stores and returns max(val - 1, 0)
cache_decr_clamped(c, e, key) ==
    LET v == IF Get(c, key, 0) - 1 < 0 THEN 0 ELSE Get(c, key, 0) - 1
    IN  [cache |-> Put(c, key, v), expiry |-> e, ret |-> Some(v)]

cache_decr(c, e, key) ==
    [cache |-> Put(c, key, Get(c, key, 0) - 1), expiry |-> e,
     ret |-> Some(Get(c, key, 0) - 1)]

\* -------------------------------------------------- TokenBucketRateLimiter
\* tokens are kept in units of 1/Resolution token.
Units(tokens) == tokens * Resolution

\* elapsed * refill_rate, in token units, for an elapsed time in ticks
Refill(elapsed) == (elapsed * refill_rate * Resolution) \div TicksPerSecond

\* allow with the refill added and never capped: tokens + refill
allow_no_min(b, key, t) ==
    LET b1 == IF key \notin DOMAIN b
              THEN Put(b, key, [tokens |-> Units(capacity), last_refill |-> t])
              ELSE b
        bucket == b1[key]
        elapsed == t - bucket.last_refill
        tokens == bucket.tokens + Refill(elapsed)
    IN  IF tokens >= Units(1)
        THEN [buckets |-> Put(b1, key, [tokens |-> tokens - Units(1), last_refill |-> t]),
              ret |-> TRUE]
        ELSE [buckets |-> Put(b1, key, [tokens |-> tokens, last_refill |-> t]),
              ret |-> FALSE]

\* allow without `bucket['last_refill'] = now` on the granting path
allow_no_stamp(b, key, t) ==
    LET b1 == IF key \notin DOMAIN b
              THEN Put(b, key, [tokens |-> Units(capacity), last_refill |-> t])
              ELSE b
        bucket == b1[key]
        elapsed == t - bucket.last_refill
        tokens == Min(Units(capacity), bucket.tokens + Refill(elapsed))
    IN  IF tokens >= Units(1)
        THEN [buckets |-> Put(b1, key, [tokens |-> tokens - Units(1),
                                        last_refill |-> bucket.last_refill]),
              ret |-> TRUE]
        ELSE [buckets |-> Put(b1, key, [tokens |-> tokens, last_refill |-> t]),
              ret |-> FALSE]

allow(b, key, t) ==
    LET b1 == IF key \notin DOMAIN b
              THEN Put(b, key, [tokens |-> Units(capacity), last_refill |-> t])
              ELSE b
        bucket == b1[key]
        elapsed == t - bucket.last_refill
        tokens == Min(Units(capacity), bucket.tokens + Refill(elapsed))
    IN  IF tokens >= Units(1)
        THEN [buckets |-> Put(b1, key, [tokens |-> tokens - Units(1), last_refill |-> t]),
              ret |-> TRUE]
        ELSE [buckets |-> Put(b1, key, [tokens |-> tokens, last_refill |-> t]),
              ret |-> FALSE]

\* ------------------------------------------------------------ initial state
\* max_participants of the 12 events init_test_data inserts into an empty
\* event table (ids 1..12, current_participants 0)
TestEvents == <<100, 50, 500, 200, 30, 80, 300, 60, 150, 100, 800, 120>>

TestRows == [id \in 1..Len(TestEvents) |->
               [max_participants |-> TestEvents[id], current_participants |-> 0]]

EventIds == 1..MaxEvents           \* ids the event table may come to hold
\* The event the requests followed here compete for: the first one made
\* through create_event, which AUTOINCREMENT numbers 13.
Contested == Len(TestEvents) + 1
\* lastrowid of the next INSERT INTO event
NextEventId(ev) == Cardinality(DOMAIN ev) + 1
\* the contested event's committed columns (0 while the row does not exist)
Occupancy ==
    IF Contested \in DOMAIN event THEN event[Contested].current_participants ELSE 0
MaxParticipants ==
    IF Contested \in DOMAIN event THEN event[Contested].max_participants ELSE 0
RegKey(user_id) == <<"reg", user_id>>
QuotaKey(event_id) == <<"quota", event_id>>
EventKey(event_id) == <<"event", event_id>>
ListKey == <<"event:list", 0>>     \* the key 'event:list'
Sessions == Procs                  \* captcha session ids

NoReq == [op |-> "none", user_id |-> 0, event_id |-> 0,
          captcha_session |-> 0, captcha |-> "", max_participants |-> 0]
\* A handler's locals, and what the request has done so far: quota_delta is
\* the sum of its own incr/decr on the quota counter, wrote whether it has
\* committed a write, replay whether it began after its session's challenge
\* had been granted, dup whether its (event, user) row has been there since
\* it began, held whether its session's challenge was stored when it began,
\* floor (of a read) the registrations whose submit had returned Granted
\* when it began.
NoLoc == [stored |-> None, remaining |-> None, new_remaining |-> None,
          cached |-> None, rowcount |-> 0, quota_delta |-> 0, wrote |-> FALSE,
          replay |-> FALSE, dup |-> FALSE, held |-> FALSE, floor |-> 0]
NoCall == [op |-> "none", key |-> <<>>, ret |-> None]
NoLog == [attempts |-> 0, granted |-> 0]

\* The process as app.run finds it, over a database holding the event rows
\* ev and registrations of the users regs for the contested event: the
\* caches, the buckets and the captcha store are empty.
InitState(ev, regs) ==
    /\ now = 0
    /\ jumps = 0
    /\ _cache = EmptyDict
    /\ _expiry = EmptyDict
    /\ _buckets = EmptyDict
    /\ _codes = EmptyDict
    /\ event = ev
    /\ registration = [r \in EventIds \X Users |->
                         IF r[1] = Contested /\ r[2] \in regs THEN 1 ELSE 0]
    /\ db_lock = 0
    /\ pc = [p \in Procs |-> "idle"]
    /\ req = [p \in Procs |-> NoReq]
    /\ loc = [p \in Procs |-> NoLoc]
    /\ outcome = [p \in Procs |-> "none"]
    /\ calls = 0
    /\ last_call = NoCall
    /\ allow_log = EmptyDict
    /\ challenge_log = [s \in Sessions |-> NoLog]

\* Started in a directory without campus_event.db: init_db creates the
\* tables and init_test_data fills in its 12 events.
InitFresh == InitState(TestRows, {})

\* Started over the database an earlier run has left (init_test_data finds
\* events and returns): besides the 12 test events it holds the event made
\* through create_event, with capacity cap, and the registrations regs for it.
InitWith(cap, regs) ==
    InitState(Put(TestRows, Contested,
                  [max_participants |-> cap, current_participants |-> Cardinality(regs)]),
              regs)

\* ------------------------------------------------------------------ clock
\* time.time() never runs backwards here; it advances by one tick.
Tick ==
    /\ now < MaxNow
    /\ now' = now + 1
    /\ last_call' = NoCall
    /\ UNCHANGED <<jumps, _cache, _expiry, _buckets, _codes, event, registration,
                   db_lock, pc, req, loc, outcome, calls, allow_log, challenge_log>>

\* --------------------------------------- MemoryCache called on its own
MaxCounter == 2                    \* |value| of a counter in the cache-only runs
CacheKeys == {QuotaKey(Contested), EventKey(Contested)}
CacheValues == {0, 1}
CacheTTLs == {1, 2}                \* ttl arguments, in ticks

CacheFrame == UNCHANGED <<now, jumps, _buckets, _codes, event, registration, db_lock,
                          pc, req, loc, outcome, calls, allow_log, challenge_log>>

CacheApply(op, key, r) ==
    /\ _cache' = r.cache
    /\ _expiry' = r.expiry
    /\ last_call' = [op |-> op, key |-> key, ret |-> r.ret]
    /\ CacheFrame

CallGet == \E key \in CacheKeys :
    CacheApply("get", key, cache_get(_cache, _expiry, key, now))

CallSet == \E key \in CacheKeys, value \in CacheValues, ttl \in CacheTTLs :
    CacheApply("set", key, cache_set(_cache, _expiry, key, value, ttl, now))

CallDelete == \E key \in CacheKeys :
    CacheApply("delete", key, cache_delete(_cache, _expiry, key))

CallIncr == \E key \in CacheKeys :
    /\ Get(_cache, key, 0) < MaxCounter
    /\ CacheApply("incr", key, cache_incr(_cache, _expiry, key))

CallDecr == \E key \in CacheKeys :
    /\ Get(_cache, key, 0) > -MaxCounter
    /\ CacheApply("decr", key, cache_decr(_cache, _expiry, key))

InitCache == InitWith(1, {})
NextCache == CallGet \/ CallSet \/ CallDelete \/ CallIncr \/ CallDecr \/ Tick
SpecCache == InitCache /\ [][NextCache]_vars

\* ------------------------------ TokenBucketRateLimiter called on its own
CallAllow == \E u \in {1} :
    LET key == RegKey(u)
        r == allow(_buckets, key, now)
        old == Get(allow_log, key, [first |-> now, granted |-> 0])
    IN  /\ old.granted < MaxDirect
        /\ _buckets' = r.buckets
        /\ last_call' = [op |-> "allow", key |-> key, ret |-> Some(r.ret)]
        /\ allow_log' = Put(allow_log, key,
                            [first |-> old.first,
                             granted |-> old.granted + (IF r.ret THEN 1 ELSE 0)])
        /\ UNCHANGED <<now, jumps, _cache, _expiry, _codes, event, registration,
                       db_lock, pc, req, loc, outcome, calls, challenge_log>>

InitLimiter == InitWith(1, {})
NextLimiter == CallAllow \/ Tick
SpecLimiter == InitLimiter /\ [][NextLimiter]_vars

\* ---------------------------------------------------------- CaptchaService
\* generate draws 4 characters from A-Z0-9; two such codes stand for them all.
\* A request may present a code in either case, or another code.
Codes == {"AB12", "CD34"}
Inputs == {"ab12", "CD34"}

\* str.lower() on the strings above
lower(str) ==
    CASE str = "AB12" -> "ab12"
      [] str = "ab12" -> "ab12"
      [] str = "CD34" -> "cd34"
      [] OTHER -> str

\* generate(session_id): one store into the dict
generate(codes, session_id, code, t) ==
    Put(codes, session_id, [code |-> code, time |-> t])

\* time.time() - stored['time'] > 300
expired(stored, t) == t - stored.time > Seconds(CaptchaWindow)

\* stored['code'].lower() == user_input.lower()
matches(stored, user_input) == lower(stored.code) = lower(user_input)

\* self._codes.pop(session_id, None) in place of del: never raises
del_code_pop(codes, session_id) ==
    [codes |-> Pop(codes, session_id), raised |-> FALSE]

\* del self._codes[session_id]: the dict afterwards, KeyError when absent
del_code(codes, session_id) ==
    IF session_id \in DOMAIN codes
    THEN [codes |-> Pop(codes, session_id), raised |-> FALSE]
    ELSE [codes |-> codes, raised |-> TRUE]

\* How a finished verify continues: on its own it is the request's result;
\* inside submit_registration a false result ends the request with 400.
VerifyReturn(p, value, logged) ==
    /\ challenge_log' =
         IF logged
         THEN [challenge_log EXCEPT ![req[p].captcha_session] =
                 [attempts |-> @.attempts + 1,
                  granted |-> @.granted + (IF value = "True" THEN 1 ELSE 0)]]
         ELSE challenge_log
    /\ IF req[p].op = "submit" /\ value = "True"
       THEN pc' = [pc EXCEPT ![p] = "quota_get"] /\ outcome' = outcome
       ELSE /\ pc' = [pc EXCEPT ![p] = "done"]
            /\ outcome' = [outcome EXCEPT ![p] =
                             IF req[p].op = "submit" /\ value = "False"
                             THEN "InvalidChallenge" ELSE value]

\* if session_id not in self._codes: return False
VerifyIn(p) ==
    /\ pc[p] = "verify_in"
    /\ IF req[p].captcha_session \notin DOMAIN _codes
       THEN VerifyReturn(p, "False", FALSE)
       ELSE /\ pc' = [pc EXCEPT ![p] = "verify_load"]
            /\ UNCHANGED <<outcome, challenge_log>>
    /\ UNCHANGED <<now, jumps, _cache, _expiry, _buckets, _codes, event, registration,
                   db_lock, req, loc, calls, last_call, allow_log>>

\* stored = self._codes[session_id]
VerifyLoad(p) ==
    /\ pc[p] = "verify_load"
    /\ IF req[p].captcha_session \notin DOMAIN _codes
       THEN VerifyReturn(p, "KeyError", FALSE) /\ loc' = loc
       ELSE /\ loc' = [loc EXCEPT ![p].stored = Some(_codes[req[p].captcha_session])]
            /\ pc' = [pc EXCEPT ![p] = "verify_time"]
            /\ UNCHANGED <<outcome, challenge_log>>
    /\ UNCHANGED <<now, jumps, _cache, _expiry, _buckets, _codes, event, registration,
                   db_lock, req, calls, last_call, allow_log>>

\* the expiry test, then the comparison (both on the thread's own copy)
VerifyTime(p) ==
    /\ pc[p] = "verify_time"
    /\ IF expired(loc[p].stored[1], now)
       THEN /\ pc' = [pc EXCEPT ![p] = "verify_expire"]
            /\ UNCHANGED <<outcome, challenge_log>>
       ELSE IF matches(loc[p].stored[1], req[p].captcha)
       THEN /\ pc' = [pc EXCEPT ![p] = "verify_consume"]
            /\ UNCHANGED <<outcome, challenge_log>>
       ELSE VerifyReturn(p, "False", TRUE)
    /\ UNCHANGED <<now, jumps, _cache, _expiry, _buckets, _codes, event, registration,
                   db_lock, req, loc, calls, last_call, allow_log>>

\* del self._codes[session_id]; return False      (the expired branch)
VerifyExpire(p) ==
    /\ pc[p] = "verify_expire"
    /\ LET r == del_code(_codes, req[p].captcha_session)
       IN  /\ _codes' = r.codes
           /\ VerifyReturn(p, IF r.raised THEN "KeyError" ELSE "False", FALSE)
    /\ UNCHANGED <<now, jumps, _cache, _expiry, _buckets, event, registration,
                   db_lock, req, loc, calls, last_call, allow_log>>

\* if result: del self._codes[session_id]; return result
VerifyConsume(p) ==
    /\ pc[p] = "verify_consume"
    /\ LET r == del_code(_codes, req[p].captcha_session)
       IN  /\ _codes' = r.codes
           /\ VerifyReturn(p, IF r.raised THEN "KeyError" ELSE "True", TRUE)
    /\ UNCHANGED <<now, jumps, _cache, _expiry, _buckets, event, registration,
                   db_lock, req, loc, calls, last_call, allow_log>>

VerifyStep(p) ==
    VerifyIn(p) \/ VerifyLoad(p) \/ VerifyTime(p) \/ VerifyExpire(p) \/ VerifyConsume(p)

\* GET /api/captcha/generate?session_id=...
GenerateCall(session_id, code) ==
    /\ _codes' = generate(_codes, session_id, code, now)
    /\ challenge_log' = [challenge_log EXCEPT ![session_id] = NoLog]
    /\ UNCHANGED <<now, jumps, _cache, _expiry, _buckets, event, registration,
                   db_lock, calls, last_call, allow_log>>

\* a new challenge for the session: no request on it counts as a replay
ClearReplay(session_id) ==
    [p \in Procs |->
        IF req[p].captcha_session = session_id
        THEN [loc[p] EXCEPT !.replay = FALSE] ELSE loc[p]]

\* In the captcha-only runs every client uses one session: sessions are
\* separate dict entries and do not interact.
SharedSessions == {1}

\* any client asks for a captcha of the session at any time
Generate == \E session_id \in SharedSessions, code \in Codes :
    /\ GenerateCall(session_id, code)
    /\ loc' = ClearReplay(session_id)
    /\ UNCHANGED <<pc, req, outcome>>

\* a thread takes a new request once it has answered the last one
Free(p) == pc[p] \in {"idle", "done"}

\* --------------------------------------- CaptchaService called on its own
CallVerify(p) == \E session_id \in SharedSessions, user_input \in Inputs :
    /\ Free(p)
    /\ calls < MaxCalls
    /\ calls' = calls + 1
    /\ pc' = [pc EXCEPT ![p] = "verify_in"]
    /\ req' = [req EXCEPT ![p] = [NoReq EXCEPT !.op = "verify",
                                               !.captcha_session = session_id,
                                               !.captcha = user_input]]
    /\ loc' = [loc EXCEPT ![p] =
                 [NoLoc EXCEPT !.replay = challenge_log[session_id].granted > 0]]
    /\ outcome' = [outcome EXCEPT ![p] = "none"]
    /\ UNCHANGED <<now, jumps, _cache, _expiry, _buckets, _codes, event, registration,
                   db_lock, last_call, allow_log, challenge_log>>

\* the clock passes a TTL in one step
Jump(d) ==
    /\ jumps < MaxJumps
    /\ jumps' = jumps + 1
    /\ now' = now + d
    /\ last_call' = NoCall
    /\ UNCHANGED <<_cache, _expiry, _buckets, _codes, event, registration,
                   db_lock, pc, req, loc, outcome, calls, allow_log, challenge_log>>

InitCaptcha == InitWith(1, {})
NextCaptcha ==
    \/ Generate
    \/ \E p \in Procs : CallVerify(p) \/ VerifyStep(p)
    \/ Jump(Seconds(CaptchaWindow) + 1)
SpecCaptcha == InitCaptcha /\ [][NextCaptcha]_vars

\* ------------------------------------------------------------ SQLite store
\* Each handler opens its own connection.  sqlite3 begins a transaction at
\* the first INSERT/UPDATE/DELETE, which takes the database's write lock and
\* keeps it until commit or close; a second writer waits for it.  Readers
\* see committed rows only, so a transaction's writes are applied to `event`
\* and `registration` at its commit.

\* a plain INSERT with the UNIQUE constraint left out of the schema
IntegrityError_none(reg, event_id, user_id) == FALSE

\* INSERT INTO registration: refused by UNIQUE(event_id, user_id)
IntegrityError(reg, event_id, user_id) == reg[<<event_id, user_id>>] > 0

insert_registration(reg, event_id, user_id) ==
    [reg EXCEPT ![<<event_id, user_id>>] = @ + 1]

\* a DELETE that matches the row and leaves it in the table
delete_registration_none(reg, event_id, user_id) == reg

\* DELETE FROM registration WHERE event_id = ? AND user_id = ?
delete_registration(reg, event_id, user_id) ==
    [reg EXCEPT ![<<event_id, user_id>>] = 0]

\* a DELETE that reports one row whatever it matched
rowcount_one(reg, event_id, user_id) == 1

\* result.rowcount of that DELETE: the rows it matched
rowcount(reg, event_id, user_id) == reg[<<event_id, user_id>>]

\* the occupancy column left as it was
update_participants_none(ev, event_id, d) == ev

\* UPDATE event SET current_participants = current_participants + d WHERE id = ?
update_participants(ev, event_id, d) ==
    IF event_id \in DOMAIN ev
    THEN [ev EXCEPT ![event_id].current_participants = @ + d]
    ELSE ev

\* --------------------------------------------------- submit_registration
\* the change a cache call makes to a counter (a missing key counts as 0)
Delta(cache_after, key) == Get(cache_after, key, 0) - Get(_cache, key, 0)

Finish(p, how) ==
    /\ pc' = [pc EXCEPT ![p] = "done"]
    /\ outcome' = [outcome EXCEPT ![p] = how]

Goto(p, label) ==
    /\ pc' = [pc EXCEPT ![p] = label]
    /\ outcome' = outcome

\* a handler that checks the captcha first and the rate second: a request
\* refused by the limiter has used up its challenge
SubmitRequest_verify_first(p, user_id, event_id, captcha_session, captcha) ==
    LET r == allow(_buckets, RegKey(user_id), now)
    IN  /\ calls' = calls + 1
        /\ req' = [req EXCEPT ![p] =
                     [NoReq EXCEPT !.op = "submit", !.user_id = user_id,
                                   !.event_id = event_id,
                                   !.captcha_session = captcha_session,
                                   !.captcha = captcha]]
        /\ loc' = [loc EXCEPT ![p] =
                     [NoLoc EXCEPT !.replay = challenge_log[captcha_session].granted > 0,
                                   !.dup = registration[<<event_id, user_id>>] > 0,
                                   !.held = captcha_session \in DOMAIN _codes]]
        /\ _buckets' = r.buckets
        /\ _codes' = IF r.ret THEN _codes ELSE Pop(_codes, captcha_session)
        /\ pc' = [pc EXCEPT ![p] = IF r.ret THEN "verify_in" ELSE "done"]
        /\ outcome' = [outcome EXCEPT ![p] = IF r.ret THEN "none" ELSE "RateLimited"]
        /\ UNCHANGED <<now, jumps, _cache, _expiry, event, registration,
                       db_lock, last_call, allow_log, challenge_log>>

\* the request arrives; step 1: rate_limiter.allow(f"reg:{user_id}")
SubmitRequest(p, user_id, event_id, captcha_session, captcha) ==
    LET r == allow(_buckets, RegKey(user_id), now)
    IN  /\ calls' = calls + 1
        /\ req' = [req EXCEPT ![p] =
                     [NoReq EXCEPT !.op = "submit", !.user_id = user_id,
                                   !.event_id = event_id,
                                   !.captcha_session = captcha_session,
                                   !.captcha = captcha]]
        /\ loc' = [loc EXCEPT ![p] =
                     [NoLoc EXCEPT !.replay = challenge_log[captcha_session].granted > 0,
                                   !.dup = registration[<<event_id, user_id>>] > 0,
                                   !.held = captcha_session \in DOMAIN _codes]]
        /\ _buckets' = r.buckets
        /\ pc' = [pc EXCEPT ![p] = IF r.ret THEN "verify_in" ELSE "done"]
        /\ outcome' = [outcome EXCEPT ![p] = IF r.ret THEN "none" ELSE "RateLimited"]
        /\ UNCHANGED <<now, jumps, _cache, _expiry, _codes, event, registration,
                       db_lock, last_call, allow_log, challenge_log>>

\* A client of the registration page: it fetches a captcha for a session of
\* its own, then submits the code it was shown (typed in lower case).
ShownCode == "AB12"

Fetch(p) ==
    /\ Free(p)
    /\ calls < MaxCalls
    /\ GenerateCall(p, ShownCode)
    /\ pc' = [pc EXCEPT ![p] = "ready"]
    /\ req' = [req EXCEPT ![p] = NoReq]
    /\ loc' = [ClearReplay(p) EXCEPT ![p] = NoLoc]
    /\ outcome' = [outcome EXCEPT ![p] = "none"]

Submit(p) == \E user_id \in Users :
    /\ pc[p] = "ready"
    /\ calls < MaxCalls
    /\ SubmitRequest(p, user_id, Contested, p, lower(ShownCode))

\* step 3: remaining = cache.get(quota_key)
QuotaGet(p) ==
    /\ pc[p] = "quota_get"
    /\ LET r == cache_get(_cache, _expiry, QuotaKey(req[p].event_id), now)
       IN  /\ _cache' = r.cache
           /\ _expiry' = r.expiry
           /\ loc' = [loc EXCEPT ![p].remaining = r.ret]
           /\ IF r.ret = None THEN Goto(p, "event_select")
              ELSE IF r.ret[1] <= 0 THEN Finish(p, "CapacityExhausted")
              ELSE Goto(p, "decr")
    /\ UNCHANGED <<now, jumps, _buckets, _codes, event, registration, db_lock,
                   req, calls, last_call, allow_log, challenge_log>>

\* SELECT max_participants, current_participants FROM event WHERE id = ?
EventSelect(p) ==
    /\ pc[p] = "event_select"
    /\ IF req[p].event_id \notin DOMAIN event
       THEN Finish(p, "EventNotFound") /\ loc' = loc
       ELSE /\ loc' = [loc EXCEPT ![p].remaining =
                         Some(event[req[p].event_id].max_participants
                              - event[req[p].event_id].current_participants)]
            /\ Goto(p, "quota_set")
    /\ UNCHANGED <<now, jumps, _cache, _expiry, _buckets, _codes, event, registration,
                   db_lock, req, calls, last_call, allow_log, challenge_log>>

\* cache.set(quota_key, remaining, ttl=3600); if remaining <= 0: 名额已满
QuotaSet(p) ==
    /\ pc[p] = "quota_set"
    /\ LET r == cache_set(_cache, _expiry, QuotaKey(req[p].event_id),
                          loc[p].remaining[1], Seconds(QuotaTTL), now)
       IN  /\ _cache' = r.cache
           /\ _expiry' = r.expiry
    /\ IF loc[p].remaining[1] <= 0 THEN Finish(p, "CapacityExhausted")
       ELSE Goto(p, "decr")
    /\ UNCHANGED <<now, jumps, _buckets, _codes, event, registration, db_lock,
                   req, loc, calls, last_call, allow_log, challenge_log>>

\* step 4: new_remaining = cache.decr(quota_key)
QuotaDecr(p) ==
    /\ pc[p] = "decr"
    /\ LET r == cache_decr(_cache, _expiry, QuotaKey(req[p].event_id))
       IN  /\ _cache' = r.cache
           /\ _expiry' = r.expiry
           /\ loc' = [loc EXCEPT ![p].new_remaining = r.ret,
                                  ![p].quota_delta = @ + Delta(r.cache, QuotaKey(req[p].event_id))]
           /\ Goto(p, IF r.ret[1] < 0 THEN "undo" ELSE "insert")
    /\ UNCHANGED <<now, jumps, _buckets, _codes, event, registration, db_lock,
                   req, calls, last_call, allow_log, challenge_log>>

\* if new_remaining < 0: cache.incr(quota_key); 名额已满
QuotaUndo(p) ==
    /\ pc[p] = "undo"
    /\ LET r == cache_incr(_cache, _expiry, QuotaKey(req[p].event_id))
       IN  /\ _cache' = r.cache
           /\ _expiry' = r.expiry
           /\ loc' = [loc EXCEPT ![p].quota_delta =
                                    @ + Delta(r.cache, QuotaKey(req[p].event_id))]
    /\ Finish(p, "CapacityExhausted")
    /\ UNCHANGED <<now, jumps, _buckets, _codes, event, registration, db_lock,
                   req, calls, last_call, allow_log, challenge_log>>

\* step 5: INSERT INTO registration (takes the write lock)
Insert(p) ==
    /\ pc[p] = "insert"
    /\ db_lock = 0
    /\ db_lock' = p
    /\ Goto(p, IF IntegrityError(registration, req[p].event_id, req[p].user_id)
               THEN "rollback" ELSE "commit")
    /\ UNCHANGED <<now, jumps, _cache, _expiry, _buckets, _codes, event, registration,
                   req, loc, calls, last_call, allow_log, challenge_log>>

\* UPDATE event ...; conn.commit()
Commit(p) ==
    /\ pc[p] = "commit"
    /\ registration' = insert_registration(registration, req[p].event_id, req[p].user_id)
    /\ event' = update_participants(event, req[p].event_id, 1)
    /\ db_lock' = 0
    /\ loc' = [loc EXCEPT ![p].wrote = TRUE]
    /\ Goto(p, "invalidate")
    /\ UNCHANGED <<now, jumps, _cache, _expiry, _buckets, _codes,
                   req, calls, last_call, allow_log, challenge_log>>

\* cache.delete(f'event:{event_id}'); 报名成功
Invalidate(p) ==
    /\ pc[p] = "invalidate"
    /\ LET r == cache_delete(_cache, _expiry, EventKey(req[p].event_id))
       IN  /\ _cache' = r.cache
           /\ _expiry' = r.expiry
    /\ Finish(p, "Granted")
    /\ UNCHANGED <<now, jumps, _buckets, _codes, event, registration, db_lock,
                   req, loc, calls, last_call, allow_log, challenge_log>>

\* a handler that answers 您已报名该活动 without giving the seat back
rollback_quota_none(c, e, key) == [cache |-> c, expiry |-> e, ret |-> None]

\* what the IntegrityError handler does to the cache: cache.incr(quota_key)
rollback_quota(c, e, key) == cache_incr(c, e, key)

\* except sqlite3.IntegrityError: cache.incr(quota_key)
\* (the failed transaction's write lock is still held)
Rollback(p) ==
    /\ pc[p] = "rollback"
    /\ LET r == rollback_quota(_cache, _expiry, QuotaKey(req[p].event_id))
       IN  /\ _cache' = r.cache
           /\ _expiry' = r.expiry
           /\ loc' = [loc EXCEPT ![p].quota_delta =
                                    @ + Delta(r.cache, QuotaKey(req[p].event_id))]
    /\ Goto(p, "close")
    /\ UNCHANGED <<now, jumps, _buckets, _codes, event, registration, db_lock,
                   req, calls, last_call, allow_log, challenge_log>>

\* finally: conn.close() drops the transaction and its write lock; 您已报名该活动
Close(p) ==
    /\ pc[p] = "close"
    /\ db_lock' = 0
    /\ Finish(p, "AlreadyRegistered")
    /\ UNCHANGED <<now, jumps, _cache, _expiry, _buckets, _codes, event, registration,
                   req, loc, calls, last_call, allow_log, challenge_log>>

SubmitStep(p) ==
    \/ QuotaGet(p) \/ EventSelect(p) \/ QuotaSet(p) \/ QuotaDecr(p) \/ QuotaUndo(p)
    \/ Insert(p) \/ Commit(p) \/ Invalidate(p) \/ Rollback(p) \/ Close(p)

\* --------------------------------------------------- cancel_registration
\* the request arrives; DELETE FROM registration (takes the write lock)
CancelRequest(p, user_id, event_id) ==
    /\ Free(p)
    /\ calls < MaxCalls
    /\ calls' = calls + 1
    /\ db_lock = 0
    /\ db_lock' = p
    /\ req' = [req EXCEPT ![p] = [NoReq EXCEPT !.op = "cancel",
                                               !.user_id = user_id,
                                               !.event_id = event_id]]
    /\ loc' = [loc EXCEPT ![p] =
                 [NoLoc EXCEPT !.rowcount = rowcount(registration, event_id, user_id)]]
    /\ pc' = [pc EXCEPT ![p] =
                IF rowcount(registration, event_id, user_id) > 0
                THEN "cancel_incr" ELSE "cancel_commit"]
    /\ outcome' = [outcome EXCEPT ![p] = "none"]
    /\ UNCHANGED <<now, jumps, _cache, _expiry, _buckets, _codes, event,
                   registration, last_call, allow_log, challenge_log>>

Cancel(p) ==
    \E user_id \in Users, event_id \in {Contested} : CancelRequest(p, user_id, event_id)

\* UPDATE event ... - 1 (pending); cache.incr(f"quota:{event_id}")
CancelIncr(p) ==
    /\ pc[p] = "cancel_incr"
    /\ LET r == cache_incr(_cache, _expiry, QuotaKey(req[p].event_id))
       IN  /\ _cache' = r.cache
           /\ _expiry' = r.expiry
           /\ loc' = [loc EXCEPT ![p].quota_delta =
                                    @ + Delta(r.cache, QuotaKey(req[p].event_id))]
    /\ Goto(p, "cancel_invalidate")
    /\ UNCHANGED <<now, jumps, _buckets, _codes, event, registration, db_lock,
                   req, calls, last_call, allow_log, challenge_log>>

\* cache.delete(f"event:{event_id}")
CancelInvalidate(p) ==
    /\ pc[p] = "cancel_invalidate"
    /\ LET r == cache_delete(_cache, _expiry, EventKey(req[p].event_id))
       IN  /\ _cache' = r.cache
           /\ _expiry' = r.expiry
    /\ Goto(p, "cancel_commit")
    /\ UNCHANGED <<now, jumps, _buckets, _codes, event, registration, db_lock,
                   req, loc, calls, last_call, allow_log, challenge_log>>

\* conn.commit(); conn.close(); 取消成功
CancelCommit(p) ==
    /\ pc[p] = "cancel_commit"
    /\ IF loc[p].rowcount > 0
       THEN /\ registration' =
                 delete_registration(registration, req[p].event_id, req[p].user_id)
            /\ event' = update_participants(event, req[p].event_id, -1)
            /\ loc' = [q \in Procs |->
                         IF q = p THEN [loc[q] EXCEPT !.wrote = TRUE]
                         ELSE IF req[q].event_id = req[p].event_id
                                 /\ req[q].user_id = req[p].user_id
                         THEN [loc[q] EXCEPT !.dup = FALSE]
                         ELSE loc[q]]
       ELSE UNCHANGED <<event, registration, loc>>
    /\ db_lock' = 0
    /\ Finish(p, "Cancelled")
    /\ UNCHANGED <<now, jumps, _cache, _expiry, _buckets, _codes,
                   req, calls, last_call, allow_log, challenge_log>>

CancelStep(p) == CancelIncr(p) \/ CancelInvalidate(p) \/ CancelCommit(p)

\* ------------------------------------------------------------ create_event
Capacities == {1, 2}               \* max_participants given to create_event

\* the request arrives; INSERT INTO event (takes the write lock)
create_event(p) ==
    \E max_participants \in Capacities :
        /\ Free(p)
        /\ calls < MaxCalls
        /\ calls' = calls + 1
        /\ NextEventId(event) <= MaxEvents
        /\ db_lock = 0
        /\ db_lock' = p
        /\ req' = [req EXCEPT ![p] = [NoReq EXCEPT !.op = "create",
                                                   !.max_participants = max_participants]]
        /\ loc' = [loc EXCEPT ![p] = NoLoc]
        /\ pc' = [pc EXCEPT ![p] = "create_commit"]
        /\ outcome' = [outcome EXCEPT ![p] = "none"]
        /\ UNCHANGED <<now, jumps, _cache, _expiry, _buckets, _codes, event,
                       registration, last_call, allow_log, challenge_log>>

\* conn.commit(); event_id = cursor.lastrowid; conn.close()
CreateCommit(p) ==
    /\ pc[p] = "create_commit"
    /\ event' = Put(event, NextEventId(event),
                    [max_participants |-> req[p].max_participants,
                     current_participants |-> 0])
    /\ req' = [req EXCEPT ![p].event_id = NextEventId(event)]
    /\ loc' = [loc EXCEPT ![p].wrote = TRUE]
    /\ db_lock' = 0
    /\ Goto(p, "create_invalidate")
    /\ UNCHANGED <<now, jumps, _cache, _expiry, _buckets, _codes, registration,
                   calls, last_call, allow_log, challenge_log>>

\* cache.delete('event:list'); return the event_id
CreateInvalidate(p) ==
    /\ pc[p] = "create_invalidate"
    /\ LET r == cache_delete(_cache, _expiry, ListKey)
       IN  /\ _cache' = r.cache
           /\ _expiry' = r.expiry
    /\ Finish(p, "Created")
    /\ UNCHANGED <<now, jumps, _buckets, _codes, event, registration, db_lock,
                   req, loc, calls, last_call, allow_log, challenge_log>>

CreateStep(p) == CreateCommit(p) \/ CreateInvalidate(p)

\* ------------------------------------------------------- the whole service
\* The process starts in a fresh directory, or over the database of an
\* earlier run, which may already hold a registration (campus_event.db
\* outlives the process).
Init ==
    \/ InitFresh
    \/ \E cap \in Capacities, regs \in {{}, {1}} :
         /\ Cardinality(regs) <= cap
         /\ InitWith(cap, regs)

Next ==
    \/ \E p \in Procs : Fetch(p) \/ Submit(p) \/ VerifyStep(p) \/ SubmitStep(p)
    \/ \E p \in Procs : Cancel(p) \/ CancelStep(p)
    \/ \E p \in Procs : create_event(p) \/ CreateStep(p)
    \/ Jump(Seconds(QuotaTTL) + 1)

Spec == Init /\ [][Next]_vars

\* ------------------------------------------------------------ store faults
\* Step 5 fails with an sqlite3 error that is no IntegrityError (the write
\* lock is not obtained within the connection's timeout, the disk fails).
\* The handler has no except clause for it: finally closes the connection,
\* which drops the transaction and its lock, and the error leaves the handler.
StoreFault(p) ==
    /\ pc[p] \in {"insert", "commit"}
    /\ db_lock' = IF db_lock = p THEN 0 ELSE db_lock
    /\ Finish(p, "StoreFault")
    /\ UNCHANGED <<now, jumps, _cache, _expiry, _buckets, _codes, event, registration,
                   req, loc, calls, last_call, allow_log, challenge_log>>

NextFault == Next \/ \E p \in Procs : StoreFault(p)
SpecFault == Init /\ [][NextFault]_vars

\* ---------------------------------------- one user: register, cancel, register
\* One client, alone on the service, registers user 1 for the event, cancels
\* and registers again; `calls` is its position in that script.  The clock
\* may advance between any two steps.
SeqUser == 1

SeqFetch ==
    /\ calls \in {0, 2}
    /\ Fetch(1)

SeqSubmit ==
    /\ calls \in {0, 2}
    /\ pc[1] = "ready"
    /\ SubmitRequest(1, SeqUser, Contested, 1, lower(ShownCode))

SeqCancel ==
    /\ calls = 1
    /\ pc[1] = "done"
    /\ CancelRequest(1, SeqUser, Contested)

\* the quota's TTL passes while no challenge of the client is outstanding
\* (each submit presents a challenge that is still valid)
SeqJump ==
    /\ pc[1] \notin {"ready", "verify_in", "verify_load", "verify_time"}
    /\ Jump(Seconds(QuotaTTL) + 1)

\* an event with a free seat and no registration of the user
InitSeq == \E cap \in Capacities : InitWith(cap, {})

\* The handler's steps; the three branches the script never enters (expired
\* challenge, negative decr, IntegrityError) are labels C11 rules out.
SeqStep ==
    \/ VerifyIn(1) \/ VerifyLoad(1) \/ VerifyTime(1) \/ VerifyConsume(1)
    \/ QuotaGet(1) \/ EventSelect(1) \/ QuotaSet(1) \/ QuotaDecr(1)
    \/ Insert(1) \/ Commit(1) \/ Invalidate(1)
    \/ CancelStep(1)

NextSeq ==
    \/ SeqFetch \/ SeqSubmit \/ SeqCancel
    \/ SeqStep
    \/ Tick
    \/ SeqJump

SpecSeq == InitSeq /\ [][NextSeq]_vars

\* ------------------------------------------- submits sharing one challenge
\* Clients that present the same captcha session, with the right or a wrong
\* code.  The session's challenge is fetched anew at any time.

GateFetch == \E session_id \in SharedSessions :
    /\ GenerateCall(session_id, ShownCode)
    /\ loc' = ClearReplay(session_id)
    /\ UNCHANGED <<pc, req, outcome>>

\* a request of user 1 for the contested event on the shared session
GateRequest(p) ==
    \E user_id \in {1}, event_id \in {Contested},
       captcha_session \in SharedSessions, captcha \in Inputs :
        /\ Free(p)
        /\ SubmitRequest(p, user_id, event_id, captcha_session, captcha)

GateSubmit(p) ==
    /\ calls < MaxCalls
    /\ GateRequest(p)

InitGate == InitWith(1, {})

NextGate ==
    \/ GateFetch
    \/ \E p \in Procs : GateSubmit(p) \/ VerifyStep(p) \/ SubmitStep(p)
    \/ Jump(Seconds(CaptchaWindow) + 1)

SpecGate == InitGate /\ [][NextGate]_vars

\* ------------------------------------------------ one client past its burst
\* One client sends user 1's requests one after the other, more of them than
\* the bucket's burst allows, with the right or a wrong code; the session's
\* challenge is fetched anew at any time and the clock may pass the captcha
\* window.
BurstSubmit ==
    /\ calls < MaxDirect
    /\ GateRequest(1)

\* the handler's steps (alone, a request never gets a negative decr)
BurstStep ==
    \/ VerifyStep(1)
    \/ QuotaGet(1) \/ EventSelect(1) \/ QuotaSet(1) \/ QuotaDecr(1)
    \/ Insert(1) \/ Commit(1) \/ Invalidate(1) \/ Rollback(1) \/ Close(1)

InitBurst == InitWith(2, {})

NextBurst ==
    \/ GateFetch
    \/ BurstSubmit
    \/ BurstStep
    \/ Jump(Seconds(CaptchaWindow) + 1)

SpecBurst == InitBurst /\ [][NextBurst]_vars

\* ------------------------------------------------- a seeded quota counter
\* The service from its start, with one restriction on the schedule: until
\* the quota key is cached, one request runs alone, so that the counter is seeded
\* once, by the submit that finds it missing (lines 312-318).  From then on
\* submits and cancels interleave freely.  The clock stands still: the key
\* does not expire.
Seeded == QuotaKey(Contested) \in DOMAIN _cache

\* no other thread is inside a handler: it has sent nothing yet, or its last
\* request (a captcha fetch included) has been answered
Alone(p) == \A q \in Procs \ {p} : pc[q] \in {"idle", "ready", "done"}

SeededFetch(p) == (Seeded \/ Alone(p)) /\ Fetch(p)
SeededSubmit(p) == (Seeded \/ Alone(p)) /\ Submit(p)
SeededCancel(p) == Seeded /\ Cancel(p)
SeededCreate(p) == (Seeded \/ Alone(p)) /\ create_event(p)

SeededStep(p) ==
    \/ VerifyIn(p) \/ VerifyLoad(p) \/ VerifyTime(p) \/ VerifyConsume(p)
    \/ SubmitStep(p)
    \/ CancelStep(p)
    \/ CreateStep(p)

NextSeeded ==
    \E p \in Procs :
        \/ SeededFetch(p) \/ SeededSubmit(p) \/ SeededCancel(p) \/ SeededCreate(p)
        \/ SeededStep(p)

SpecSeeded == Init /\ [][NextSeeded]_vars

\* ------------------------------------------------ list_events, get_event
\* Of an event's row a cached projection keeps the field C19 is about, its
\* current_participants.  Every event has the default status 2, so the list
\* holds all events and is never empty; a cached dict or non-empty list is
\* truthy.

\* dict(row) of an event as a SELECT reads it
event_dict(ev, event_id) == [current_participants |-> ev[event_id].current_participants]

\* [dict(e) for e in events]
events_list(ev) == [id \in DOMAIN ev |-> event_dict(ev, id)]

\* the cache key and ttl the handler of a read uses
ReadKey(r) == IF r.op = "list" THEN ListKey ELSE EventKey(r.event_id)
ReadTTL(r) == IF r.op = "list" THEN Seconds(ListTTL) ELSE Seconds(DetailTTL)

\* registrations whose submit_registration call has returned: the committed
\* ones but for the calls still before their return
Returned ==
    Occupancy
      - Cardinality({q \in Procs : req[q].op = "submit" /\ pc[q] = "invalidate"})

\* the request arrives; cached = cache.get(cache_key); if cached: return it
ReadRequest(p, op) ==
    LET r == [NoReq EXCEPT !.op = op, !.event_id = Contested]
        g == cache_get(_cache, _expiry, ReadKey(r), now)
    IN  /\ Free(p)
        /\ calls < MaxCalls
        /\ calls' = calls + 1
        /\ req' = [req EXCEPT ![p] = r]
        /\ loc' = [loc EXCEPT ![p] = [NoLoc EXCEPT !.cached = g.ret, !.floor = Returned]]
        /\ _cache' = g.cache
        /\ _expiry' = g.expiry
        /\ pc' = [pc EXCEPT ![p] = IF g.ret = None THEN "read_select" ELSE "done"]
        /\ outcome' = [outcome EXCEPT ![p] = IF g.ret = None THEN "none" ELSE "Read"]
        /\ UNCHANGED <<now, jumps, _buckets, _codes, event, registration, db_lock,
                       last_call, allow_log, challenge_log>>

\* conn.execute('SELECT ... FROM event ...'); conn.close()
ReadSelect(p) ==
    /\ pc[p] = "read_select"
    /\ IF req[p].op = "list"
       THEN /\ loc' = [loc EXCEPT ![p].cached = Some(events_list(event))]
            /\ Goto(p, "read_set")
       ELSE IF req[p].event_id \notin DOMAIN event
       THEN Finish(p, "EventNotFound") /\ loc' = loc
       ELSE /\ loc' = [loc EXCEPT ![p].cached = Some(event_dict(event, req[p].event_id))]
            /\ Goto(p, "read_set")
    /\ UNCHANGED <<now, jumps, _cache, _expiry, _buckets, _codes, event, registration,
                   db_lock, req, calls, last_call, allow_log, challenge_log>>

\* cache.set(cache_key, ..., ttl=60 / ttl=300); return it
ReadSet(p) ==
    /\ pc[p] = "read_set"
    /\ LET r == cache_set(_cache, _expiry, ReadKey(req[p]), loc[p].cached[1],
                          ReadTTL(req[p]), now)
       IN  /\ _cache' = r.cache
           /\ _expiry' = r.expiry
    /\ Finish(p, "Read")
    /\ UNCHANGED <<now, jumps, _buckets, _codes, event, registration, db_lock,
                   req, loc, calls, last_call, allow_log, challenge_log>>

list_events(p) == ReadRequest(p, "list")
get_event(p) == ReadRequest(p, "detail")
ReadStep(p) == ReadSelect(p) \/ ReadSet(p)

\* current_participants of the contested event as a finished read reports
\* it (0 when the event is not in the list)
Reported(p) ==
    IF req[p].op = "detail" THEN loc[p].cached[1].current_participants
    ELSE IF Contested \in DOMAIN loc[p].cached[1]
    THEN loc[p].cached[1][Contested].current_participants
    ELSE 0

\* submits (each with a captcha of its own), reads and event creations,
\* interleaved; no cancel, and the clock stands still
NextRead ==
    \E p \in Procs :
        \/ Fetch(p) \/ Submit(p)
        \/ VerifyIn(p) \/ VerifyLoad(p) \/ VerifyTime(p) \/ VerifyConsume(p)
        \/ SubmitStep(p)
        \/ list_events(p) \/ get_event(p) \/ ReadStep(p)
        \/ create_event(p) \/ CreateStep(p)

SpecRead == Init /\ [][NextRead]_vars

\* ======================================================================
\* Properties
\* ======================================================================

\* C3 (as claimed): once a verify has found a stored, unexpired challenge of a
\* session and finished, that challenge is gone (until the next generate),
\* whether or not the candidate matched.
C3_ConsumedRegardless ==
    \A s \in Sessions : challenge_log[s].attempts > 0 => s \notin DOMAIN _codes

\* C4: between two generates of a session at most one verify returns true,
\* and a verify that starts after one has returned true returns false.
C4_OneShot ==
    /\ \A s \in Sessions : challenge_log[s].granted <= 1
    /\ \A p \in Procs :
         (pc[p] = "done" /\ req[p].op = "verify" /\ loc[p].replay)
            => outcome[p] = "False"

\* C4's case: one verify returned true and a second one, started afterwards
\* with the same session and the same correct code, has returned.
C4_Witness ==
    \E p, q \in Procs :
        /\ p # q
        /\ pc[p] = "done" /\ outcome[p] = "True"
        /\ pc[q] = "done" /\ loc[q].replay /\ req[q].op = "verify"
        /\ req[q].captcha_session = req[p].captcha_session
        /\ req[q].captcha = req[p].captcha

\* 1/refill_rate seconds, in ticks
RefillPeriod == Seconds(1) \div refill_rate

\* C9: while less than 1/R seconds have passed since an identity's first
\* allow, at most `capacity` of its allow calls have returned true.
C9_LimiterBounded ==
    \A key \in DOMAIN allow_log :
        now - allow_log[key].first < RefillPeriod
            => allow_log[key].granted <= capacity

\* C9's case: inside the window the burst is spent and a call was refused.
C9_Witness ==
    \E key \in DOMAIN allow_log :
        /\ now - allow_log[key].first < RefillPeriod
        /\ now > allow_log[key].first
        /\ allow_log[key].granted = capacity
        /\ last_call = [op |-> "allow", key |-> key, ret |-> Some(FALSE)]

\* C10 (as claimed): a get at a time now >= expiresAt, now = expiresAt
\* included, reports the key absent and removes the entry.
C10_TTLVisibility ==
    [][\A key \in DOMAIN _expiry :
          (last_call'.op = "get" /\ last_call'.key = key /\ now >= _expiry[key])
             => (last_call'.ret = None /\ key \notin DOMAIN _cache')]_vars

\* the cached quota of the contested event, when the key is there and has not expired
QuotaPresent ==
    /\ QuotaKey(Contested) \in DOMAIN _cache
    /\ QuotaKey(Contested) \in DOMAIN _expiry => now <= _expiry[QuotaKey(Contested)]

Quiescent == \A p \in Procs : pc[p] \in {"idle", "ready", "done"}


\* C1 (as claimed): the committed current_participants of the event never
\* exceeds its max_participants.
C1_NoOverbooking ==
    Occupancy <= MaxParticipants

\* C2 (as claimed): with no request in flight and the quota key present,
\* cached quota + current_participants = max_participants.
C2_QuotaConservation ==
    (Quiescent /\ QuotaPresent)
        => _cache[QuotaKey(Contested)] + Occupancy
             = MaxParticipants

\* C5 (as claimed): a submit that passed the rate check and the challenge
\* check, and whose (event, user) row was there from its start to its end,
\* ends AlreadyRegistered, whatever the cached quota.
C5_DuplicateOutcome ==
    \A p \in Procs :
        (pc[p] = "done" /\ req[p].op = "submit" /\ loc[p].dup
           /\ outcome[p] \notin {"RateLimited", "InvalidChallenge", "KeyError"})
            => outcome[p] = "AlreadyRegistered"

\* C6: the registration table never holds two rows for one (event, user).
C6_NoDuplicateRow ==
    \A r \in DOMAIN registration : registration[r] <= 1

\* C6's case: a second INSERT for a pair that has a row was attempted and
\* refused.
C6_Witness ==
    \E p \in Procs :
        /\ pc[p] = "done" /\ outcome[p] = "AlreadyRegistered"
        /\ registration[<<req[p].event_id, req[p].user_id>>] = 1

\* C7 (as claimed): a submit that ends in a store fault after its decrement
\* has given the seat back: its own incr/decr on the counter sum to 0.
C7_FaultRollback ==
    \A p \in Procs :
        (pc[p] = "done" /\ outcome[p] = "StoreFault") => loc[p].quota_delta = 0

\* C8: a submit that ends AlreadyRegistered after a successful decrement has
\* incremented the counter back (its incr/decr sum to 0) and has committed no
\* write, so current_participants is as it would be without the call.
C8_ConflictRollback ==
    \A p \in Procs :
        (pc[p] = "done" /\ outcome[p] = "AlreadyRegistered")
            => (loc[p].quota_delta = 0 /\ ~loc[p].wrote)

\* C8's case: the decrement returned >= 0 and the INSERT hit the conflict.
C8_Witness ==
    \E p \in Procs :
        /\ pc[p] = "done" /\ outcome[p] = "AlreadyRegistered"
        /\ loc[p].new_remaining # None /\ loc[p].new_remaining[1] >= 0
        /\ QuotaPresent
        /\ _cache[QuotaKey(Contested)] = loc[p].new_remaining[1] + 1

\* C11: in the sequence submit, cancel, submit of one user on an event with
\* a free seat, the first submit is Granted and leaves current_participants
\* at 1, the cancel succeeds and leaves it at 0, and the second submit is
\* Granted (not AlreadyRegistered) and leaves it at 1.
C11_RegisterCancelRegister ==
    /\ pc[1] \notin {"verify_expire", "undo", "rollback", "close"}
    /\ pc[1] = "done" =>
        /\ calls = 1 => (outcome[1] = "Granted" /\ Occupancy = 1)
        /\ calls = 2 => (outcome[1] = "Cancelled" /\ Occupancy = 0)
        /\ calls = 3 => (outcome[1] = "Granted" /\ Occupancy = 1)

\* C11's case: the second submit of the sequence has returned.
C11_Witness ==
    /\ pc[1] = "done" /\ calls = 3 /\ req[1].op = "submit"
    /\ outcome[1] = "Granted"
    /\ registration[<<Contested, SeqUser>>] = 1

\* the outcomes submit_registration answers with
TaggedOutcomes == {"Granted", "RateLimited", "InvalidChallenge", "EventNotFound",
                   "CapacityExhausted", "AlreadyRegistered"}

\* C12 (as claimed): with no store fault, every submit_registration call that
\* has ended has ended with one of the tagged outcomes, also when two calls
\* present the same captcha session at the same time.
C12_TaggedOutcome ==
    \A p \in Procs :
        (pc[p] = "done" /\ req[p].op = "submit") => outcome[p] \in TaggedOutcomes

\* where a thread stands inside captcha_service.verify
VerifyLabels == {"verify_in", "verify_load", "verify_time", "verify_expire",
                 "verify_consume"}

\* C18: the step in which a submit is refused by the rate check changes
\* neither the stored challenges, nor the cache, nor the tables; and no step
\* of a submit up to the end of its challenge check (the arrival, the steps
\* of verify, the refusal) changes the cache or the tables.
C18_ShortCircuit ==
    [][\A p \in Procs :
         /\ (calls' # calls /\ req'[p].op = "submit"
               /\ pc'[p] = "done" /\ outcome'[p] = "RateLimited")
              => UNCHANGED <<_codes, _cache, _expiry, event, registration>>
         /\ (calls' # calls /\ req'[p].op = "submit" /\ pc'[p] = "verify_in")
              => UNCHANGED <<_cache, _expiry, event, registration>>
         /\ (req[p].op = "submit" /\ pc[p] \in VerifyLabels /\ pc'[p] # pc[p]
               /\ (pc'[p] \in VerifyLabels \/ outcome'[p] = "InvalidChallenge"))
              => UNCHANGED <<_cache, _expiry, event, registration>>]_vars

\* C18's case: a submit was refused by the rate check while its session's
\* challenge was stored (and left it stored), after a submit on that
\* challenge had been refused by the challenge check, the quota being cached.
C18_Witness ==
    \E p \in Procs :
        /\ pc[p] = "done" /\ req[p].op = "submit" /\ outcome[p] = "RateLimited"
        /\ loc[p].held
        /\ req[p].captcha_session \in DOMAIN _codes
        /\ challenge_log[req[p].captcha_session].attempts > 0
        /\ QuotaKey(Contested) \in DOMAIN _cache

\* the registration row a thread's request names is not in the table
NoRow(p) == registration[<<req[p].event_id, req[p].user_id>>] = 0

\* C13: every step of a cancel_registration call whose (event, user) pair
\* has no row (the DELETE on arrival, the commit) leaves the event table, the
\* registration table and the cache (cached quota and event projection) as
\* they were, and the call ends with the success outcome.
C13_IdempotentCancel ==
    [][\A p \in Procs :
         /\ (calls' # calls /\ req'[p].op = "cancel" /\ pc'[p] # "done"
               /\ registration[<<req'[p].event_id, req'[p].user_id>>] = 0)
              => /\ pc'[p] = "cancel_commit"
                 /\ UNCHANGED <<event, registration, _cache, _expiry>>
         /\ (req[p].op = "cancel" /\ NoRow(p) /\ pc'[p] # pc[p]
               /\ pc[p] \in {"cancel_incr", "cancel_invalidate", "cancel_commit"})
              => /\ pc'[p] = "done" /\ outcome'[p] = "Cancelled"
                 /\ UNCHANGED <<event, registration, _cache, _expiry>>]_vars

\* C13's case: a cancel removed the row, and a second cancel of the same pair
\* found no row and has returned.
C13_Witness ==
    \E p, q \in Procs :
        /\ p # q
        /\ pc[p] = "done" /\ req[p].op = "cancel" /\ loc[p].wrote
        /\ pc[q] = "done" /\ req[q].op = "cancel" /\ loc[q].rowcount = 0
        /\ req[q].user_id = req[p].user_id /\ req[q].event_id = req[p].event_id
        /\ outcome[q] = "Cancelled"
        /\ NoRow(q)

\* registration rows of the contested event
Rows == {u \in Users : registration[<<Contested, u>>] > 0}

\* C17: in every committed state the event's current_participants equals
\* the number of its registration rows, and so is never negative.
C17_OccupancyTracksRows ==
    /\ Occupancy = Cardinality(Rows)
    /\ Occupancy >= 0

\* C17's case: a submit has added a row and a cancel has removed one.
C17_Witness ==
    \E p, q \in Procs :
        /\ pc[p] = "done" /\ outcome[p] = "Granted" /\ loc[p].wrote
        /\ pc[q] = "done" /\ outcome[q] = "Cancelled" /\ loc[q].wrote

\* C14: every incr (decr) call changes the key's value by exactly +1 (-1)
\* from the value the previous call left (0 when the key is missing) and
\* returns the value it stored; so after any interleaving of such calls the
\* value is the initial one plus the incr calls minus the decr calls and the
\* returned values are the intermediate values of that order.
C14_AtomicCounter ==
    [][\A key \in CacheKeys :
         /\ (last_call'.op = "incr" /\ last_call'.key = key)
              => /\ key \in DOMAIN _cache'
                 /\ _cache'[key] = Get(_cache, key, 0) + 1
                 /\ last_call'.ret = Some(_cache'[key])
         /\ (last_call'.op = "decr" /\ last_call'.key = key)
              => /\ key \in DOMAIN _cache'
                 /\ _cache'[key] = Get(_cache, key, 0) - 1
                 /\ last_call'.ret = Some(_cache'[key])]_vars

\* C14's case: a second incr on a key has returned 2.
C14_Witness ==
    /\ last_call.op = "incr"
    /\ last_call.ret = Some(2)
    /\ _cache[last_call.key] = 2

\* the key holds no entry a get would still report: it is missing, or its
\* expiry has passed and no get has evicted it yet
LogicallyAbsent(key) ==
    \/ key \notin DOMAIN _cache
    \/ key \in DOMAIN _expiry /\ now > _expiry[key]

\* C16 (as claimed): incr on a logically absent key returns 1 and decr
\* returns -1, the entry expired but not yet evicted included.
C16_AbsentCountsAsZero ==
    [][\A key \in CacheKeys :
         (last_call'.key = key /\ LogicallyAbsent(key))
            => /\ last_call'.op = "incr" => last_call'.ret = Some(1)
               /\ last_call'.op = "decr" => last_call'.ret = Some(-1)]_vars

\* C20: every bucket holds between 0 and `capacity` tokens, and an allow call
\* that returns false leaves the bucket with its refilled tokens, fewer than
\* one, none subtracted.
C20_BucketBounds ==
    /\ [](\A key \in DOMAIN _buckets :
            /\ 0 <= _buckets[key].tokens
            /\ _buckets[key].tokens <= Units(capacity))
    /\ [][\A key \in DOMAIN _buckets :
            (last_call' = [op |-> "allow", key |-> key, ret |-> Some(FALSE)])
               => /\ _buckets'[key].tokens < Units(1)
                  /\ _buckets'[key].tokens =
                       Min(Units(capacity),
                           _buckets[key].tokens + Refill(now - _buckets[key].last_refill))]_vars

\* C20's case: a call was refused on a bucket that had refilled a part of a
\* token, and the part is still there.
C20_Witness ==
    \E key \in DOMAIN _buckets :
        /\ last_call = [op |-> "allow", key |-> key, ret |-> Some(FALSE)]
        /\ _buckets[key].tokens > 0
        /\ _buckets[key].tokens < Units(1)

\* submits past step 4 (their decr returned >= 0) that have neither been
\* rolled back nor committed their row yet
Holding == {p \in Procs : req[p].op = "submit" /\ pc[p] \in {"insert", "commit", "rollback"}}

\* cancels whose cache.incr is done and whose deletion is not yet committed
CancelPending == {p \in Procs : req[p].op = "cancel" /\ loc[p].rowcount > 0
                                /\ pc[p] \in {"cancel_invalidate", "cancel_commit"}}

\* C15: with the counter seeded once at R = max_participants -
\* current_participants, the submits that passed step 4 and were not rolled
\* back (rows committed since, plus those in Holding) never exceed R plus the
\* cancel increments (deletions committed since, plus CancelPending); in
\* terms of the present state: current_participants + |Holding| <=
\* max_participants + |CancelPending|.  And a call whose decr returned a
\* negative value makes exactly one compensating incr before it ends.
C15_PreDeductionBound ==
    /\ Occupancy + Cardinality(Holding)
         <= MaxParticipants + Cardinality(CancelPending)
    /\ \A p \in Procs :
         (req[p].op = "submit" /\ loc[p].new_remaining # None
            /\ loc[p].new_remaining[1] < 0)
           => /\ pc[p] \in {"undo", "done"}
              /\ pc[p] = "undo" => loc[p].quota_delta = -1
              /\ pc[p] = "done" => (loc[p].quota_delta = 0
                                    /\ outcome[p] = "CapacityExhausted")

\* C15's case: of two submits racing for the last seat of the seeded counter
\* one holds it (its decr returned 0) and the other's decr returned -1 and
\* was compensated.
C15_Witness ==
    \E p, q \in Procs :
        /\ p # q
        /\ req[p].op = "submit" /\ pc[p] = "done" /\ outcome[p] = "CapacityExhausted"
        /\ loc[p].new_remaining = Some(-1) /\ loc[p].quota_delta = 0
        /\ req[q].op = "submit" /\ loc[q].new_remaining = Some(0)
        /\ pc[q] \in {"insert", "commit", "invalidate", "done"}

\* C19 (as claimed): a read of the list or of the detail projection reports a
\* current_participants that includes every registration whose submit had
\* returned Granted before the read began.
C19_ProjectionFresh ==
    \A p \in Procs :
        (pc[p] = "done" /\ req[p].op \in {"list", "detail"} /\ outcome[p] = "Read")
            => Reported(p) >= loc[p].floor

\* C21 (as claimed): whenever the contested event's quota key is present, its value is at most
\* max_participants minus the committed current_participants.
C21_QuotaNeverOptimistic ==
    QuotaPresent
        => _cache[QuotaKey(Contested)]
             <= MaxParticipants - Occupancy

\* C22 (as claimed): every key that holds a value in the cache also has an
\* expiry time.
C22_EveryEntryExpires ==
    \A key \in DOMAIN _cache : key \in DOMAIN _expiry

====
